---------------------------- MODULE Spec2Model ----------------------------
(***************************************************************************)
(* A model of dirgit: the scan of the current directory for git            *)
(* repositories (find_issues), the per-directory classifier                *)
(* (find_issues_with) and the report (Issues::output), as written in       *)
(* src/src/issues.rs, src/src/main.rs and src/src/args.rs.                 *)
(*                                                                         *)
(* Command output is a byte string, modelled as a sequence of one-         *)
(* character strings, so that substring search, prefix tests and line and  *)
(* word splitting are computed the way the code computes them.             *)
(***************************************************************************)
EXTENDS Integers, Sequences, FiniteSets

VARIABLES
  fs,        \* the directory tree under the current directory (fixed)
  args,      \* the command-line arguments (Args)
  repos,     \* path -> state of the git repository at that path
  pc,        \* position of the process: main, walk, returned, exited, panicked
  idx,       \* position of find_issues' loop in the directory listing
  issues,    \* the Issues accumulator
  stdout,    \* what main printed: NotPrinted or the report
  calls,     \* the paths find_issues_with has been called with, in order
  listed,    \* the paths read_dir has been called on
  run,       \* 1 in the first run of the program, 2 in the second
  prev       \* the first run's outcome, kept for comparison in the second

vars == <<fs, args, repos, pc, idx, issues, stdout, calls, listed, run, prev>>

-----------------------------------------------------------------------------
(* Bounds of the model. *)

\* the most entries the current directory holds
MaxEntries == 2

-----------------------------------------------------------------------------
(* Byte strings. *)

\* a byte that is no valid UTF-8
BadByte == "0xFF"

FatalNotARepo ==
  <<"f","a","t","a","l",":"," ","n","o","t"," ","a"," ","g","i","t"," ","r","e","p",
      "o","s","i","t","o","r","y">>

Origin ==
  <<"o","r","i","g","i","n">>

ChangesToBeCommitted ==
  <<"C","h","a","n","g","e","s"," ","t","o"," ","b","e"," ","c","o","m","m","i","t",
      "t","e","d",":">>

ChangesNotStaged ==
  <<"C","h","a","n","g","e","s"," ","n","o","t"," ","s","t","a","g","e","d"," ","f",
      "o","r"," ","c","o","m","m","i","t",":">>

UntrackedFiles ==
  <<"U","n","t","r","a","c","k","e","d"," ","f","i","l","e","s",":">>

BranchAheadOf ==
  <<"Y","o","u","r"," ","b","r","a","n","c","h"," ","i","s"," ","a","h","e","a","d",
      " ","o","f">>

HaveDivergedText ==
  <<"h","a","v","e"," ","d","i","v","e","r","g","e","d">>

OriginPrefix ==
  <<"[","o","r","i","g","i","n","/">>

\* slice::windows(needle.len()).any(|c| c == needle)
is_sub(haystack, needle) ==
  \E i \in 1..(Len(haystack) - Len(needle) + 1) :
    \A j \in 1..Len(needle) : haystack[i + j - 1] = needle[j]

\* slice::starts_with
starts_with(haystack, prefix) ==
  /\ Len(prefix) <= Len(haystack)
  /\ \A j \in 1..Len(prefix) : haystack[j] = prefix[j]

\* String::from_utf8(..).is_ok()
from_utf8_ok(bytes) ==
  \A i \in 1..Len(bytes) : bytes[i] # BadByte

\* the position of the first sep in s at or after i, or Len(s) + 1
RECURSIVE Find(_, _, _)
Find(s, sep, i) ==
  IF i > Len(s) THEN Len(s) + 1
  ELSE IF s[i] = sep THEN i
  ELSE Find(s, sep, i + 1)

\* str::split(sep): every piece, the empty ones included
RECURSIVE split(_, _)
split(s, sep) ==
  LET k == Find(s, sep, 1) IN
    IF k > Len(s) THEN <<s>>
    ELSE <<SubSeq(s, 1, k - 1)>> \o split(SubSeq(s, k + 1, Len(s)), sep)

\* str::lines(): split at line feeds; a final empty line is not a line
lines(s) ==
  LET parts == split(s, "\n")
      kept  == IF parts[Len(parts)] = << >>
               THEN SubSeq(parts, 1, Len(parts) - 1) ELSE parts
  IN kept

-----------------------------------------------------------------------------
(* The git client, as far as the scan reads it: what `git status`,         *)
(* `git remote` and `git branch -vv --color=never` print for a repository,  *)
(* and what `git fetch` changes.                                           *)

RECURSIVE Concat(_)
Concat(ss) == IF ss = << >> THEN << >> ELSE Head(ss) \o Concat(Tail(ss))

Spaces(n) == [i \in 1..n |-> " "]

Max(a, b) == IF a >= b THEN a ELSE b

Branch(name, current, upstream, subject) ==
  [name |-> name, current |-> current, upstream |-> upstream, subject |-> subject]

Subject == <<"i","n","i","t">>

\* the checked-out branch tracks origin/<its name>
Tracked == <<Branch(<<"m","a","i","n">>, TRUE, <<"o","r","i","g","i","n","/","m","a","i","n">>, Subject)>>

\* the checked-out branch has no upstream
Untracked == <<Branch(<<"m","a","i","n">>, TRUE, << >>, Subject)>>

\* the checked-out branch tracks a remote branch of another name
OtherUpstream == <<Branch(<<"m","a","i","n">>, TRUE, <<"o","r","i","g","i","n","/","f","e","a","t","u","r","e">>, Subject)>>

\* the checked-out branch has no upstream; another branch tracks origin/main
OtherTracksMain ==
  <<Branch(<<"d","e","v">>, FALSE, <<"o","r","i","g","i","n","/","m","a","i","n">>, Subject),
    Branch(<<"m","a","i","n">>, TRUE, << >>, Subject)>>

\* the checked-out branch has no upstream; a branch of a longer name is tracked
LongerSibling ==
  <<Branch(<<"m","a","i","n">>, TRUE, << >>, Subject),
    Branch(<<"m","a","i","n","2">>, FALSE, <<"o","r","i","g","i","n","/","m","a","i","n","2">>, Subject)>>

\* a repository without a commit has no branch to list
NoBranches == << >>

\* no branch is checked out (used with a detached head)
NoneCurrent == <<Branch(<<"m","a","i","n">>, FALSE, <<"o","r","i","g","i","n","/","m","a","i","n">>, Subject)>>

\* the commit subject holds a byte that is no UTF-8
BadSubject ==
  <<Branch(<<"m","a","i","n">>, TRUE, <<"o","r","i","g","i","n","/","m","a","i","n">>, <<"f","i","x"," ">> \o <<BadByte>>)>>

NotARepo ==
  [is_repo |-> FALSE, remotes |-> << >>, detached |-> FALSE, branches |-> << >>,
   staged |-> FALSE, unstaged |-> FALSE, untracked |-> FALSE,
   ahead |-> FALSE, behind |-> FALSE, remote_new |-> FALSE]

Repo(rm, det, br, st, un, ut, ah, bh, rn) ==
  [is_repo |-> TRUE, remotes |-> rm, detached |-> det, branches |-> br,
   staged |-> st, unstaged |-> un, untracked |-> ut, ahead |-> ah,
   behind |-> bh, remote_new |-> rn]

\* the checked-out branch, or << >> when there is none
CurrentOf(repo) ==
  LET cur == {i \in 1..Len(repo.branches) : repo.branches[i].current} IN
    IF cur = {} THEN << >> ELSE <<repo.branches[CHOOSE i \in cur : TRUE]>>

HeadHash == <<"1","a","2","b","3","c","4">>

\* `git status`: [stdout, stderr]
git_status(repo) ==
  IF ~repo.is_repo
  THEN [stdout |-> << >>,
        stderr |-> <<"f","a","t","a","l",":"," ","n","o","t"," ","a"," ","g","i","t"," ","r","e","p",
      "o","s","i","t","o","r","y"," ","(","o","r"," ","a","n","y"," ","o","f"," ",
      "t","h","e"," ","p","a","r","e","n","t"," ","d","i","r","e","c","t","o","r",
      "i","e","s",")",":"," ",".","g","i","t","\n">>]
  ELSE
    LET cur == CurrentOf(repo)
        head ==
          IF cur = << >>
          THEN IF repo.detached
               THEN <<"H","E","A","D"," ","d","e","t","a","c","h","e","d"," ","a","t"," ">> \o HeadHash \o <<"\n">>
               ELSE <<"O","n"," ","b","r","a","n","c","h"," ","m","a","i","n","\n","\n","N","o"," ","c",
      "o","m","m","i","t","s"," ","y","e","t","\n">>
          ELSE <<"O","n"," ","b","r","a","n","c","h"," ">> \o cur[1].name \o <<"\n">>
        sync ==
          IF cur = << >> \/ cur[1].upstream = << >> THEN << >>
          ELSE IF repo.ahead /\ repo.behind
          THEN <<"Y","o","u","r"," ","b","r","a","n","c","h"," ","a","n","d"," ","'">> \o cur[1].upstream \o <<"'"," ","h","a","v","e"," ","d","i","v","e","r","g","e","d",",","\n">>
          ELSE IF repo.ahead
          THEN <<"Y","o","u","r"," ","b","r","a","n","c","h"," ","i","s"," ","a","h","e","a","d",
      " ","o","f"," ","'">> \o cur[1].upstream \o <<"'"," ","b","y"," ","1"," ","c","o","m","m","i","t",".","\n">>
          ELSE IF repo.behind
          THEN <<"Y","o","u","r"," ","b","r","a","n","c","h"," ","i","s"," ","b","e","h","i","n",
      "d"," ","'">> \o cur[1].upstream \o <<"'"," ","b","y"," ","1"," ","c","o","m","m","i","t",".","\n">>
          ELSE <<"Y","o","u","r"," ","b","r","a","n","c","h"," ","i","s"," ","u","p"," ","t","o",
      " ","d","a","t","e"," ","w","i","t","h"," ","'">> \o cur[1].upstream \o <<"'",".","\n">>
        staged ==
          IF repo.staged THEN <<"C","h","a","n","g","e","s"," ","t","o"," ","b","e"," ","c","o","m","m","i","t",
      "t","e","d",":","\n","\t","n","e","w"," ","f","i","l","e",":"," "," "," ","a",
      "\n">> ELSE << >>
        unstaged ==
          IF repo.unstaged THEN <<"C","h","a","n","g","e","s"," ","n","o","t"," ","s","t","a","g","e","d"," ","f",
      "o","r"," ","c","o","m","m","i","t",":","\n","\t","m","o","d","i","f","i","e",
      "d",":"," "," "," ","b","\n">>
          ELSE << >>
        untracked ==
          IF repo.untracked THEN <<"U","n","t","r","a","c","k","e","d"," ","f","i","l","e","s",":","\n","\t","c","\n">> ELSE << >>
        clean ==
          IF repo.staged \/ repo.unstaged \/ repo.untracked THEN << >>
          ELSE <<"n","o","t","h","i","n","g"," ","t","o"," ","c","o","m","m","i","t",","," ","w",
      "o","r","k","i","n","g"," ","t","r","e","e"," ","c","l","e","a","n","\n">>
    IN [stdout |-> head \o sync \o staged \o unstaged \o untracked \o clean,
        stderr |-> << >>]

\* `git remote`: stdout, one remote a line
git_remote(repo) ==
  IF ~repo.is_repo THEN << >>
  ELSE Concat([i \in 1..Len(repo.remotes) |-> repo.remotes[i] \o <<"\n">>])

\* the width of the name column of `git branch -vv`
RECURSIVE NameWidth(_)
NameWidth(branches) ==
  IF branches = << >> THEN 0
  ELSE Max(Len(Head(branches).name), NameWidth(Tail(branches)))

DetachedName == <<"(","H","E","A","D"," ","d","e","t","a","c","h","e","d"," ","a","t"," ">> \o HeadHash \o <<")">>

\* one line of `git branch -vv`
BranchLine(b, width) ==
  (IF b.current THEN <<"*"," ">> ELSE <<" "," ">>)
  \o b.name \o Spaces(width - Len(b.name)) \o <<" ">> \o HeadHash \o <<" ">>
  \o (IF b.upstream = << >> THEN << >> ELSE <<"[">> \o b.upstream \o <<"]"," ">>)
  \o b.subject \o <<"\n">>

\* `git branch -vv --color=never`: stdout
git_branch_vv(repo) ==
  IF ~repo.is_repo THEN << >>
  ELSE
    LET width == IF repo.detached
                 THEN Max(Len(DetachedName), NameWidth(repo.branches))
                 ELSE NameWidth(repo.branches)
        head == IF repo.detached
                THEN <<"*"," ">> \o DetachedName \o Spaces(width - Len(DetachedName))
                     \o <<" ">> \o HeadHash \o <<" ">> \o Subject \o <<"\n">>
                ELSE << >>
    IN head \o Concat([i \in 1..Len(repo.branches) |->
                         BranchLine(repo.branches[i], width)])

\* `git fetch`: the remote's new commits become known to the repository
git_fetch(repo) ==
  IF repo.is_repo /\ repo.remotes # << >> /\ repo.remote_new
  THEN [repo EXCEPT !.behind = TRUE, !.remote_new = FALSE]
  ELSE repo

-----------------------------------------------------------------------------
(* The Issues accumulator and its rendering. *)

\* Issues::default()
IssuesDefault ==
  [dir_searched |-> 0, no_git_repo |-> << >>, no_remote |-> << >>,
   current_branch_untracked |-> << >>, not_committed |-> << >>,
   not_pushed |-> << >>, have_diverged |-> << >>]

Categories ==
  <<"no_git_repo", "no_remote", "current_branch_untracked", "not_committed",
    "not_pushed", "have_diverged">>

\* the sum the overview prints as Total Issues
total(self) ==
  Len(self.no_git_repo) + Len(self.not_committed) + Len(self.not_pushed)
    + Len(self.have_diverged) + Len(self.no_remote)

\* Issues::overview: the numbers of the seven lines
overview(self) ==
  [no_git_repo |-> Len(self.no_git_repo),
   no_remote |-> Len(self.no_remote),
   current_branch_untracked |-> Len(self.current_branch_untracked),
   not_committed |-> Len(self.not_committed),
   not_pushed |-> Len(self.not_pushed),
   have_diverged |-> Len(self.have_diverged),
   total |-> total(self),
   dir_searched |-> self.dir_searched]

\* Issues::verbose: a section for every sequence that is not empty, then the overview
verbose(self) ==
  LET all == [i \in 1..Len(Categories) |->
                [title |-> Categories[i], count |-> Len(self[Categories[i]]),
                 paths |-> self[Categories[i]]]]
  IN [sections |-> SelectSeq(all, LAMBDA sec : sec.count # 0),
      overview |-> overview(self)]

\* Issues::output
output(self, a) ==
  IF a.verbose THEN verbose(self)
  ELSE [sections |-> << >>, overview |-> overview(self)]

-----------------------------------------------------------------------------
(* The classifier. *)

\* current_branch with the missing "*" line taken as an empty branch name
\* (unwrap_or_default in place of expect)
current_branch_or_empty(git_branch_vv_out) ==
  LET ls    == lines(git_branch_vv_out)
      words == [i \in 1..Len(ls) |-> split(ls[i], " ")]
      hits  == {i \in 1..Len(ls) : words[i][1] = <<"*">> /\ Len(words[i]) >= 2}
  IN IF hits = {} THEN << << >> >>
     ELSE <<words[CHOOSE i \in hits : \A j \in hits : i <= j][2]>>

\* the second word of the first line whose first word is "*", or << >>
current_branch(git_branch_vv_out) ==
  LET ls    == lines(git_branch_vv_out)
      words == [i \in 1..Len(ls) |-> split(ls[i], " ")]
      hits  == {i \in 1..Len(ls) : words[i][1] = <<"*">> /\ Len(words[i]) >= 2}
  IN IF hits = {} THEN << >>
     ELSE <<words[CHOOSE i \in hits : \A j \in hits : i <= j][2]>>

\* classify with the NotPushed check ahead of the NotCommitted check
classify_pushed_first(status, remote_out, branch_out) ==
  IF starts_with(status.stderr, FatalNotARepo) THEN "no_git_repo"
  ELSE IF ~is_sub(remote_out, Origin) THEN "no_remote"
  ELSE IF ~from_utf8_ok(branch_out) THEN "panic"
  ELSE IF current_branch(branch_out) = << >> THEN "panic"
  ELSE IF ~is_sub(branch_out, OriginPrefix \o current_branch(branch_out)[1])
    THEN "current_branch_untracked"
  ELSE IF is_sub(status.stdout, BranchAheadOf) THEN "not_pushed"
  ELSE IF \/ is_sub(status.stdout, ChangesToBeCommitted)
          \/ is_sub(status.stdout, ChangesNotStaged)
          \/ is_sub(status.stdout, UntrackedFiles)
    THEN "not_committed"
  ELSE IF is_sub(status.stdout, HaveDivergedText) THEN "have_diverged"
  ELSE "none"

\* find_issues_with, after the commands ran: the sequence the path is pushed to,
\* "none" when it is pushed to no sequence, "panic" when an expect fails
classify(status, remote_out, branch_out) ==
  IF starts_with(status.stderr, FatalNotARepo) THEN "no_git_repo"
  ELSE IF ~is_sub(remote_out, Origin) THEN "no_remote"
  ELSE IF ~from_utf8_ok(branch_out) THEN "panic"
  ELSE IF current_branch(branch_out) = << >> THEN "panic"
  ELSE IF ~is_sub(branch_out, OriginPrefix \o current_branch(branch_out)[1])
    THEN "current_branch_untracked"
  ELSE IF \/ is_sub(status.stdout, ChangesToBeCommitted)
          \/ is_sub(status.stdout, ChangesNotStaged)
          \/ is_sub(status.stdout, UntrackedFiles)
    THEN "not_committed"
  ELSE IF is_sub(status.stdout, BranchAheadOf) THEN "not_pushed"
  ELSE IF is_sub(status.stdout, HaveDivergedText) THEN "have_diverged"
  ELSE "none"

\* push without the return: the checks that follow run too, and a path pushed
\* for uncommitted files is pushed for un-pushed commits as well
push_fallthrough(self, cat, path) ==
  IF cat = "not_committed"
  THEN [self EXCEPT !.not_committed = Append(@, path),
                    !.not_pushed = Append(@, path)]
  ELSE [self EXCEPT ![cat] = Append(@, path)]

\* issues.<cat>.push(path.clone())
push(self, cat, path) == [self EXCEPT ![cat] = Append(@, path)]

\* the fetch run whatever --no-fetch says
fetches_always(a) == TRUE

\* whether find_issues_with runs `git fetch`
fetches(a) == ~a.no_fetch

\* find_issues_with(path, issues, args); spawned says whether the git commands
\* could be started in the directory, after is where the caller goes on
find_issues_with(path, spawned, after) ==
  LET counted == [issues EXCEPT !.dir_searched = @ + 1]
      repo    == IF fetches(args) THEN git_fetch(repos[path]) ELSE repos[path]
      cat     == classify(git_status(repo), git_remote(repo), git_branch_vv(repo))
  IN /\ calls' = Append(calls, path)
     /\ IF ~spawned
        THEN /\ issues' = counted
             /\ repos' = repos
             /\ pc' = "panicked"
        ELSE /\ repos' = [repos EXCEPT ![path] = repo]
             /\ IF cat = "panic"
                THEN issues' = counted /\ pc' = "panicked"
                ELSE IF cat = "none"
                THEN issues' = counted /\ pc' = after
                ELSE issues' = push(counted, cat, path) /\ pc' = after

-----------------------------------------------------------------------------
(* The directory tree and the repositories in it. *)

RootPath == "./"

\* DirEntry::path() of the entries of "./", in the order read_dir yields them
EntryPaths == <<"./a", "./b", "./c", "./d">>

\* a directory beneath an entry that holds a .git marker of its own (a submodule)
SubPaths == <<"./a/sub", "./b/sub", "./c/sub", "./d/sub">>

Paths == {RootPath} \cup {EntryPaths[i] : i \in 1..Len(EntryPaths)}

\* clap's default_value_t of recurse_limit
RecurseLimitDefault == 3

OriginOnly == <<Origin>>

\* the repository states the scanned trees are built from
ScanRepos ==
  { NotARepo,
    Repo(<< >>, FALSE, Untracked, FALSE, FALSE, FALSE, FALSE, FALSE, FALSE),
    Repo(OriginOnly, FALSE, Untracked, FALSE, FALSE, FALSE, FALSE, FALSE, FALSE),
    Repo(OriginOnly, FALSE, NoBranches, FALSE, FALSE, FALSE, FALSE, FALSE, FALSE),
    Repo(OriginOnly, FALSE, Tracked, FALSE, FALSE, TRUE, TRUE, FALSE, FALSE),
    Repo(OriginOnly, FALSE, Tracked, FALSE, FALSE, FALSE, TRUE, FALSE, FALSE),
    Repo(OriginOnly, FALSE, Tracked, FALSE, FALSE, FALSE, TRUE, TRUE, FALSE),
    Repo(OriginOnly, FALSE, Tracked, FALSE, FALSE, FALSE, FALSE, FALSE, FALSE) }

\* every repository state of the model
AllRepos ==
  {NotARepo} \cup
  { Repo(rm, h[1], h[2], st, un, ut, ah, bh, rn) :
      rm \in {<< >>, OriginOnly, <<<<"u","p","s","t","r","e","a","m">>>>},
      h \in { <<FALSE, Tracked>>, <<FALSE, Untracked>>, <<FALSE, OtherUpstream>>,
              <<FALSE, OtherTracksMain>>, <<FALSE, LongerSibling>>,
              <<FALSE, NoBranches>>, <<TRUE, NoneCurrent>>, <<FALSE, BadSubject>> },
      st \in BOOLEAN, un \in BOOLEAN, ut \in BOOLEAN,
      ah \in BOOLEAN, bh \in BOOLEAN, rn \in BOOLEAN }

\* what read_dir yields for an entry: an error, an entry whose metadata cannot
\* be read, a file, or a directory (with or without a .git marker)
Entries(repoSet) ==
  { [kind |-> k, git |-> FALSE, repo |-> NotARepo] :
      k \in {"err", "nometa", "file", "dir"} }
  \cup { [kind |-> "dir", git |-> TRUE, repo |-> r] : r \in repoSet }

\* the current directory: a repository, or a directory that read_dir can or
\* cannot read
Roots(repoSet) ==
  { [git |-> TRUE, readable |-> TRUE, repo |-> r] : r \in repoSet }
  \cup { [git |-> FALSE, readable |-> rd, repo |-> NotARepo] : rd \in BOOLEAN }

\* the repository at a path when the program starts
RepoAt(tree, p) ==
  IF p = RootPath THEN tree.root.repo
  ELSE LET i == CHOOSE k \in 1..Len(EntryPaths) : EntryPaths[k] = p IN
         IF i <= Len(tree.entries) THEN tree.entries[i].repo ELSE NotARepo

\* the filter of find_issues' loop: the entry was read and is a directory
is_dir(entry) == entry.kind = "dir"

NotPrinted == [sections |-> << >>, overview |-> "nothing"]

NoRun == [issues |-> IssuesDefault, stdout |-> NotPrinted]

\* the trees of at most maxEntries entries
Trees(repoSet, maxEntries) ==
  UNION { [root : Roots(repoSet), entries : [1..n -> Entries(repoSet)]] :
            n \in 0..maxEntries }

\* the trees that hold at most one directory for find_issues_with: the current
\* directory alone, or a current directory without .git that holds one entry
SingleTrees(repoSet) ==
  { t \in Trees(repoSet, 0) : TRUE }
  \cup { t \in [root : Roots({}), entries : [1..1 -> Entries(repoSet)]] :
           t.root.readable }

InitWith(trees, argSet) ==
  /\ args \in argSet
  /\ fs \in trees
  /\ repos = [p \in Paths |-> RepoAt(fs, p)]
  /\ pc = "main"
  /\ idx = 0
  /\ issues = IssuesDefault
  /\ stdout = NotPrinted
  /\ calls = << >>
  /\ listed = {}
  /\ run = 1
  /\ prev = NoRun

\* scans of trees of several directories, with the default depth and output
Init ==
  InitWith(Trees(ScanRepos, MaxEntries),
           [no_fetch : BOOLEAN, verbose : {FALSE},
            recurse_limit : {RecurseLimitDefault}])

\* scans of one directory in every repository state, with every argument
InitSingle ==
  InitWith(SingleTrees(AllRepos),
           [no_fetch : BOOLEAN, verbose : BOOLEAN,
            recurse_limit : {0, RecurseLimitDefault}])

-----------------------------------------------------------------------------
(* The program: main calls find_issues and prints the report. *)

\* the marker looked for where there is none: the current directory is never
\* taken for a repository
root_is_repo_never == FALSE

\* Path::exists("./.git")
root_is_repo == fs.root.git

\* find_issues, "./.git" exists: the current directory is the one repository
FindIssuesRepo ==
  /\ pc = "main"
  /\ root_is_repo
  /\ \E spawned \in BOOLEAN : find_issues_with(RootPath, spawned, "returned")
  /\ UNCHANGED <<fs, args, idx, stdout, listed, run, prev>>

\* find_issues, no "./.git": read_dir("./").expect(..)
FindIssuesReadDir ==
  /\ pc = "main"
  /\ ~root_is_repo
  /\ listed' = listed \cup {RootPath}
  /\ IF fs.root.readable
     THEN pc' = "walk" /\ idx' = 1
     ELSE pc' = "panicked" /\ idx' = idx
  /\ UNCHANGED <<fs, args, repos, issues, stdout, calls, run, prev>>

\* the loop of find_issues: an entry the filters drop
WalkSkip ==
  /\ pc = "walk"
  /\ idx <= Len(fs.entries)
  /\ ~is_dir(fs.entries[idx])
  /\ idx' = idx + 1
  /\ UNCHANGED <<fs, args, repos, pc, issues, stdout, calls, listed, run, prev>>

\* the loop of find_issues: a directory is handed to find_issues_with
WalkVisit ==
  /\ pc = "walk"
  /\ idx <= Len(fs.entries)
  /\ is_dir(fs.entries[idx])
  /\ \E spawned \in BOOLEAN : find_issues_with(EntryPaths[idx], spawned, "walk")
  /\ idx' = idx + 1
  /\ UNCHANGED <<fs, args, stdout, listed, run, prev>>

\* the loop of find_issues ends: find_issues returns the accumulator
WalkEnd ==
  /\ pc = "walk"
  /\ idx > Len(fs.entries)
  /\ pc' = "returned"
  /\ UNCHANGED <<fs, args, repos, idx, issues, stdout, calls, listed, run, prev>>

\* main: println!("{}", issues.output(&args))
MainPrint ==
  /\ pc = "returned"
  /\ stdout' = output(issues, args)
  /\ pc' = "exited"
  /\ UNCHANGED <<fs, args, repos, idx, issues, calls, listed, run, prev>>

\* the program is run a second time on the same tree with the same arguments;
\* in between, the remote of one repository may have received new commits
Rerun ==
  /\ pc = "exited"
  /\ run = 1
  /\ prev' = [issues |-> issues, stdout |-> stdout]
  /\ \E pushed \in SUBSET Paths :
       /\ Cardinality(pushed) <= 1
       /\ \A p \in pushed : repos[p].is_repo /\ repos[p].remotes # << >>
       /\ repos' = [p \in Paths |->
                      IF p \in pushed THEN [repos[p] EXCEPT !.remote_new = TRUE]
                      ELSE repos[p]]
  /\ run' = 2
  /\ pc' = "main"
  /\ idx' = 0
  /\ issues' = IssuesDefault
  /\ stdout' = NotPrinted
  /\ calls' = << >>
  /\ listed' = {}
  /\ UNCHANGED <<fs, args>>

Next ==
  \/ FindIssuesRepo
  \/ FindIssuesReadDir
  \/ WalkSkip
  \/ WalkVisit
  \/ WalkEnd
  \/ MainPrint
  \/ Rerun

Spec == Init /\ [][Next]_vars

SpecSingle == InitSingle /\ [][Next]_vars

-----------------------------------------------------------------------------
(* What the properties below speak of. *)

Range(seq) == {seq[i] : i \in 1..Len(seq)}

\* the sequences of the accumulator that hold the path
RecordedIn(self, path) ==
  {c \in Range(Categories) : path \in Range(self[c])}

RECURSIVE SumLen(_, _)
SumLen(self, i) ==
  IF i = 0 THEN 0 ELSE Len(self[Categories[i]]) + SumLen(self, i - 1)

\* the number of paths held by the six sequences together
Recorded(self) == SumLen(self, Len(Categories))

\* the calls of find_issues_with that returned: all but one that panicked
Returned ==
  IF pc = "panicked" /\ calls # << >> THEN SubSeq(calls, 1, Len(calls) - 1)
  ELSE calls

\* the outputs the commands gave for a path find_issues_with was called with
StatusOf(path) == git_status(repos[path])

RemoteOf(path) == git_remote(repos[path])

BranchOf(path) == git_branch_vv(repos[path])

\* the condition of a category, taken alone
Matches(cat, path) ==
  CASE cat = "no_git_repo" -> starts_with(StatusOf(path).stderr, FatalNotARepo)
    [] cat = "no_remote" -> ~is_sub(RemoteOf(path), Origin)
    [] cat = "current_branch_untracked" ->
         LET stars == SelectSeq(lines(BranchOf(path)),
                                LAMBDA l : starts_with(l, <<"*", " ">>))
         IN /\ stars # << >>
            /\ ~is_sub(BranchOf(path), OriginPrefix \o split(stars[1], " ")[2])
    [] cat = "not_committed" ->
         \E needle \in {ChangesToBeCommitted, ChangesNotStaged, UntrackedFiles} :
           is_sub(StatusOf(path).stdout, needle)
    [] cat = "not_pushed" -> is_sub(StatusOf(path).stdout, BranchAheadOf)
    [] cat = "have_diverged" -> is_sub(StatusOf(path).stdout, HaveDivergedText)

\* the first category in the order of precedence whose condition holds, if any
FirstMatch(path) ==
  LET hits == {i \in 1..Len(Categories) : Matches(Categories[i], path)} IN
    IF hits = {} THEN {}
    ELSE {Categories[CHOOSE i \in hits : \A j \in hits : i <= j]}

\* the path passed the NoGitRepo and NoRemote checks
PassedRepoChecks(path) ==
  ~Matches("no_git_repo", path) /\ ~Matches("no_remote", path)

\* the tracking info of the path has no line whose first word is "*"
NoStarLine(path) ==
  \A l \in Range(lines(BranchOf(path))) : split(l, " ")[1] # <<"*">>

\* the directories that hold a .git marker
GitEntries == {i \in 1..Len(fs.entries) : fs.entries[i].git}

-----------------------------------------------------------------------------
(* C1: every call of the classifier that returns has recorded the path in   *)
(* the first category, in the order NoGitRepo, NoRemote,                    *)
(* CurrentBranchUntracked, NotCommitted, NotPushed, HaveDiverged, whose     *)
(* condition holds of the three command outputs, and in no sequence when    *)
(* none holds.                                                              *)
C1_FirstMatchWins ==
  \A i \in 1..Len(Returned) :
    RecordedIn(issues, Returned[i]) = FirstMatch(Returned[i])

\* a repository with untracked files that is also ahead of its upstream has
\* been recorded, as NotCommitted only
C1_Witness ==
  \E p \in Range(Returned) :
    /\ is_sub(StatusOf(p).stdout, UntrackedFiles)
    /\ is_sub(StatusOf(p).stdout, BranchAheadOf)
    /\ RecordedIn(issues, p) = {"not_committed"}

(* C2: no path is held by more than one of the six sequences (nor twice by  *)
(* one), and the sequences together hold at most one path for each call of  *)
(* the classifier.                                                          *)
C2_OneSequencePerPath ==
  /\ \A p \in Paths : Cardinality(RecordedIn(issues, p)) <= 1
  /\ \A c \in Range(Categories) :
       \A i, j \in 1..Len(issues[c]) : issues[c][i] = issues[c][j] => i = j
  /\ Recorded(issues) <= Len(calls)

\* two directories have been recorded, in two different sequences
C2_Witness ==
  /\ pc = "exited"
  /\ \E p, q \in Paths :
       /\ p # q
       /\ RecordedIn(issues, p) # {}
       /\ RecordedIn(issues, q) # {}
       /\ RecordedIn(issues, p) # RecordedIn(issues, q)

(* C3: when find_issues has returned, dir_searched is the number of calls   *)
(* of the classifier, which is the number of directories with a .git marker *)
(* that the walk met, and no directory without a .git marker was handed to  *)
(* the classifier.                                                          *)
C3_SearchedCountsGitDirs ==
  pc \in {"returned", "exited"} =>
    /\ issues.dir_searched = Len(calls)
    /\ Len(calls) = IF fs.root.git THEN 1 ELSE Cardinality(GitEntries)
    /\ \A p \in Range(calls) :
         \/ p = RootPath /\ fs.root.git
         \/ \E i \in GitEntries : p = EntryPaths[i]

(* C4: a scan with recurse_limit = 0 calls the classifier for no directory  *)
(* and prints a report of zero directories searched and six empty           *)
(* sequences.                                                               *)
C4_DepthZeroDoesNothing ==
  args.recurse_limit = 0 =>
    /\ calls = << >>
    /\ issues = IssuesDefault
    /\ pc = "exited" => stdout.overview.dir_searched = 0

(* C5: the walk does not go beneath a directory that holds a .git marker:   *)
(* such a directory is never listed, nothing below it is listed or handed   *)
(* to the classifier, and it is handed to the classifier once at most.      *)
C5_RepositoriesAreLeaves ==
  /\ fs.root.git =>
       /\ listed = {}
       /\ calls \in {<< >>, <<RootPath>>}
  /\ \A i \in GitEntries :
       /\ EntryPaths[i] \notin listed
       /\ SubPaths[i] \notin listed \cup Range(calls)
       /\ Cardinality({k \in 1..Len(calls) : calls[k] = EntryPaths[i]}) <= 1

\* the current directory holds .git and so does a directory in it; the scan
\* is over and only the current directory was classified
C5_Witness ==
  /\ fs.root.git
  /\ GitEntries # {}
  /\ pc = "exited"
  /\ calls = <<RootPath>>
  /\ stdout.overview.dir_searched = 1

(* C6: a repository with an origin remote whose checked-out branch does not *)
(* track origin/<its name> is recorded as CurrentBranchUntracked and        *)
(* nowhere else, whatever other branches the tracking info lists.           *)
C6_UntrackedBranchIsFlagged ==
  \A p \in Range(Returned) :
    LET cur == CurrentOf(repos[p]) IN
      ( /\ PassedRepoChecks(p)
        /\ cur # << >>
        /\ cur[1].upstream # <<"o","r","i","g","i","n","/">> \o cur[1].name )
      => RecordedIn(issues, p) = {"current_branch_untracked"}

(* C7: with fetch disabled, a second run over the same tree prints the      *)
(* report of the first: the same dir_searched and the same six sequences.   *)
C7_RerunSameReport ==
  (run = 2 /\ args.no_fetch) =>
    /\ pc \in {"returned", "exited"} => issues = prev.issues
    /\ pc = "exited" => stdout = prev.stdout

\* the second run is over, without fetch, of a tree of two classified
\* directories, one with an issue, where a remote got new commits in between
C7_Witness ==
  /\ run = 2
  /\ args.no_fetch
  /\ pc = "exited"
  /\ Len(calls) >= 2
  /\ Recorded(issues) >= 1
  /\ \E p \in Range(calls) : repos[p].remote_new

(* C8: a repository that passes the NoGitRepo and NoRemote checks and whose *)
(* tracking info has no line with first word "*" ends the run: the call     *)
(* panics, it is the last call, the path is recorded nowhere and nothing    *)
(* is printed.                                                              *)
C8_NoCurrentBranchIsFatal ==
  \A i \in 1..Len(calls) :
    (PassedRepoChecks(calls[i]) /\ NoStarLine(calls[i])) =>
      /\ pc = "panicked"
      /\ i = Len(calls)
      /\ RecordedIn(issues, calls[i]) = {}
      /\ stdout = NotPrinted

\* the run panicked at such a repository after another directory had been
\* recorded and before the last entry was reached
C8_Witness ==
  /\ pc = "panicked"
  /\ Len(calls) >= 2
  /\ PassedRepoChecks(calls[Len(calls)])
  /\ NoStarLine(calls[Len(calls)])
  /\ Recorded(issues) >= 1
  /\ stdout = NotPrinted

(* C9: a directory that cannot be read does not abort the scan: the run     *)
(* panics only in a call of the classifier, never in reading a directory.   *)
C9_UnreadableNeverAborts ==
  pc = "panicked" => calls # << >>

(* C10: the total the overview prints is the sum of the lengths of the six  *)
(* sequences.                                                               *)
C10_TotalIsSumOfSix ==
  pc = "exited" => stdout.overview.total = Recorded(issues)

=============================================================================
